---------------------------- MODULE Spec2Model ----------------------------
(***************************************************************************)
(* A model of the AllSensors DLV pressure/temperature sensor driver        *)
(* (src/src/AllSensors_DLV.h, src/src/AllSensors_DLV.cpp).                 *)
(*                                                                         *)
(* Numbers.  The driver computes in C++ float/double.  The model computes  *)
(* with the exact rational numbers those expressions denote: a value is    *)
(* kept as a reduced fraction whose numerator is an arbitrary-precision    *)
(* integer and whose denominator is a product of the primes 2, 5, 23 and   *)
(* 89 (every divisor and decimal literal of the driver is of that form:    *)
(* 16384 = 2^14, 2047 = 23 * 89, decimal literals divide by powers of 10). *)
(* The reduced form is unique, so two values are equal as real numbers     *)
(* exactly when their records are equal.  Binary rounding of float results *)
(* is not part of the model.                                               *)
(***************************************************************************)
EXTENDS Integers, Sequences, FiniteSets, TLC

(***************************************************************************)
(* Arbitrary-precision naturals: little-endian sequences of base-10000     *)
(* limbs without a leading (most significant) zero limb; <<>> is zero.     *)
(***************************************************************************)
Base == 10 ^ 4

RECURSIVE NatToMag(_)
NatToMag(n) == IF n = 0 THEN <<>> ELSE <<n % Base>> \o NatToMag(n \div Base)

RECURSIVE MagTrim(_)
MagTrim(m) ==
  IF m = <<>> THEN <<>>
  ELSE IF m[Len(m)] = 0 THEN MagTrim(SubSeq(m, 1, Len(m) - 1))
  ELSE m

RECURSIVE MagAddC(_, _, _)
MagAddC(x, y, c) ==
  IF x = <<>> /\ y = <<>> THEN (IF c = 0 THEN <<>> ELSE <<c>>)
  ELSE LET a == IF x = <<>> THEN 0 ELSE Head(x)
           b == IF y = <<>> THEN 0 ELSE Head(y)
           s == a + b + c
       IN  <<s % Base>> \o MagAddC(IF x = <<>> THEN <<>> ELSE Tail(x),
                                   IF y = <<>> THEN <<>> ELSE Tail(y),
                                   s \div Base)

MagAdd(x, y) == MagAddC(x, y, 0)

\* x - y for x >= y, limb by limb with a borrow.
RECURSIVE MagSubB(_, _, _)
MagSubB(x, y, b) ==
  IF x = <<>> THEN <<>>
  ELSE LET s == Head(x) - (IF y = <<>> THEN 0 ELSE Head(y)) - b
       IN  <<IF s < 0 THEN s + Base ELSE s>>
           \o MagSubB(Tail(x), IF y = <<>> THEN <<>> ELSE Tail(y),
                      IF s < 0 THEN 1 ELSE 0)

MagSub(x, y) == MagTrim(MagSubB(x, y, 0))

\* -1, 0, 1 as x < y, x = y, x > y.
RECURSIVE MagCmp(_, _)
MagCmp(x, y) ==
  IF Len(x) # Len(y) THEN (IF Len(x) < Len(y) THEN -1 ELSE 1)
  ELSE IF x = <<>> THEN 0
  ELSE IF x[Len(x)] # y[Len(y)] THEN (IF x[Len(x)] < y[Len(y)] THEN -1 ELSE 1)
  ELSE MagCmp(SubSeq(x, 1, Len(x) - 1), SubSeq(y, 1, Len(y) - 1))

\* x * d for one limb 0 <= d < Base.
RECURSIVE MagMulLimbC(_, _, _)
MagMulLimbC(x, d, c) ==
  IF x = <<>> THEN (IF c = 0 THEN <<>> ELSE <<c>>)
  ELSE LET p == Head(x) * d + c
       IN  <<p % Base>> \o MagMulLimbC(Tail(x), d, p \div Base)

MagMulLimb(x, d) == MagTrim(MagMulLimbC(x, d, 0))

RECURSIVE MagMul(_, _)
MagMul(x, y) ==
  IF x = <<>> \/ y = <<>> THEN <<>>
  ELSE LET rest == MagMul(Tail(x), y)
       IN  MagAdd(MagMulLimb(y, Head(x)),
                  IF rest = <<>> THEN <<>> ELSE <<0>> \o rest)

\* <<quotient, remainder>> of x by a small divisor 0 < d < Base.
RECURSIVE MagDivRem(_, _)
MagDivRem(x, d) ==
  IF x = <<>> THEN <<(<<>>), 0>>
  ELSE LET hi  == MagDivRem(Tail(x), d)
           cur == hi[2] * Base + Head(x)
       IN  <<MagTrim(<<cur \div d>> \o hi[1]), cur % d>>

RECURSIVE MagMulPow(_, _, _)
MagMulPow(m, p, n) == IF n = 0 THEN m ELSE MagMulPow(MagMulLimb(m, p), p, n - 1)

(***************************************************************************)
(* Rationals [neg, mag, den]: the value of sign neg, numerator mag and    *)
(* denominator the product of Primes[i]^den[i], reduced: no prime of the   *)
(* denominator divides mag; zero is Zero.                                  *)
(***************************************************************************)
Primes == <<2, 5, 23, 89>>
NoDen  == <<0, 0, 0, 0>>
Zero   == [neg |-> FALSE, mag |-> <<>>, den |-> NoDen]

\* How often p divides n, counted up to cap (p > 1, cap >= 0).
RECURSIVE PowIn(_, _, _)
PowIn(n, p, cap) ==
  IF cap = 0 \/ n % p # 0 THEN 0 ELSE 1 + PowIn(n \div p, p, cap - 1)

Min(a, b) == IF a <= b THEN a ELSE b

\* Cancel the prime Primes[i] between numerator and denominator.  A prime
\* that divides Base to the power c divides mag to the power k <= c exactly
\* when it so divides the lowest limb, which allows cancelling p^k at once.
RECURSIVE Cancel(_, _, _)
Cancel(mag, e, i) ==
  IF e = 0 THEN <<mag, 0>>
  ELSE IF Base % Primes[i] = 0
  THEN LET k == PowIn(Head(mag), Primes[i], Min(e, PowIn(Base, Primes[i], e)))
       IN  IF k = 0 THEN <<mag, e>>
           ELSE Cancel(MagDivRem(mag, Primes[i] ^ k)[1], e - k, i)
  ELSE LET qr == MagDivRem(mag, Primes[i])
       IN  IF qr[2] = 0 THEN Cancel(qr[1], e - 1, i) ELSE <<mag, e>>

RECURSIVE ReduceFrom(_, _, _)
ReduceFrom(mag, den, i) ==
  IF i > Len(Primes) THEN <<mag, den>>
  ELSE LET c == Cancel(mag, den[i], i)
       IN  ReduceFrom(c[1], [den EXCEPT ![i] = c[2]], i + 1)

Reduce(neg, mag, den) ==
  IF mag = <<>> THEN Zero
  ELSE LET r == ReduceFrom(mag, den, 1)
       IN  [neg |-> neg, mag |-> r[1], den |-> r[2]]

RInt(n) == IF n < 0 THEN [neg |-> TRUE, mag |-> NatToMag(-n), den |-> NoDen]
           ELSE IF n = 0 THEN Zero
           ELSE [neg |-> FALSE, mag |-> NatToMag(n), den |-> NoDen]

RNeg(r) == IF r.mag = <<>> THEN Zero ELSE [r EXCEPT !.neg = ~r.neg]

RMul(r, q) ==
  Reduce(r.neg # q.neg, MagMul(r.mag, q.mag),
         [i \in 1..Len(Primes) |-> r.den[i] + q.den[i]])

\* How often the prime p divides k (k > 0).
RECURSIVE ExpOf(_, _)
ExpOf(k, p) == IF k % p = 0 THEN 1 + ExpOf(k \div p, p) ELSE 0

\* r / k for an integer k > 0 all of whose prime factors are in Primes.
RDivInt(r, k) ==
  Reduce(r.neg, r.mag, [i \in 1..Len(Primes) |-> r.den[i] + ExpOf(k, Primes[i])])

\* The decimal literal n / 10^d, e.g. RDec(125, 2) is 1.25.
RDec(n, d) == Reduce(n < 0, NatToMag(IF n < 0 THEN -n ELSE n), <<d, d, 0, 0>>)

Max(a, b) == IF a >= b THEN a ELSE b

\* The numerator of r over the common denominator den (den >= r.den pointwise).
RECURSIVE ScaleTo(_, _, _, _)
ScaleTo(mag, from, to, i) ==
  IF i > Len(Primes) THEN mag
  ELSE ScaleTo(MagMulPow(mag, Primes[i], to[i] - from[i]), from, to, i + 1)

RAdd(r, q) ==
  LET den == [i \in 1..Len(Primes) |-> Max(r.den[i], q.den[i])]
      a   == ScaleTo(r.mag, r.den, den, 1)
      b   == ScaleTo(q.mag, q.den, den, 1)
  IN  IF r.neg = q.neg THEN Reduce(r.neg, MagAdd(a, b), den)
      ELSE IF MagCmp(a, b) >= 0 THEN Reduce(r.neg, MagSub(a, b), den)
      ELSE Reduce(q.neg, MagSub(b, a), den)

RSub(r, q) == RAdd(r, RNeg(q))

\* r <= q
RLe(r, q) == LET d == RSub(q, r) IN ~d.neg

(***************************************************************************)
(* C integer operators on non-negative values.                             *)
(***************************************************************************)
RECURSIVE BitAnd(_, _)
BitAnd(a, b) ==
  IF a = 0 \/ b = 0 THEN 0
  ELSE (IF a % 2 = 1 /\ b % 2 = 1 THEN 1 ELSE 0) + 2 * BitAnd(a \div 2, b \div 2)

RECURSIVE BitOr(_, _)
BitOr(a, b) ==
  IF a = 0 THEN b ELSE IF b = 0 THEN a
  ELSE (IF a % 2 = 1 \/ b % 2 = 1 THEN 1 ELSE 0) + 2 * BitOr(a \div 2, b \div 2)

Shl(a, n) == a * 2^n
Shr(a, n) == a \div 2^n
U8(v)  == v % 256
U16(v) == v % 65536

(***************************************************************************)
(* Constants of class AllSensors_DLV.                                      *)
(***************************************************************************)
I2C_ADDRESS    == 40
READ_LENGTH    == 4
FULL_SCALE_REF == U16(Shl(1, 14))

\* enum SensorType
GAGE         == 71
DIFFERENTIAL == 68
ABSOLUTE     == 65
\* enum Status
CURRENT    == 0
RESERVED   == 1
STALE_DATA == 2
ERROR      == 3
\* enum PressureUnit
PSI    == 76
IN_H2O == 72
PASCAL == 80
\* enum TemperatureUnit
CELCIUS    == 67
FAHRENHEIT == 70
KELVIN     == 75

SensorTypes      == {GAGE, DIFFERENTIAL, ABSOLUTE}
PressureUnits    == {PSI, IN_H2O, PASCAL}
TemperatureUnits == {CELCIUS, FAHRENHEIT, KELVIN}

(***************************************************************************)
(* The private member functions, each a function of the members it reads.  *)
(***************************************************************************)
\* Extract the 2-bit status field.
extractStatus(rd) == Shr(BitAnd(rd[1], 192), 6)

\* extractIntegerPressure with a mask one bit too wide.
extractIntegerPressure_mask7F(rd) ==
  U16(BitOr(Shl(U16(BitAnd(rd[1], 127)), 8), U16(rd[2])))

\* Extract the 14-bit pressure field.
extractIntegerPressure(rd) ==
  U16(BitOr(Shl(U16(BitAnd(rd[1], 63)), 8), U16(rd[2])))

\* Extract the 11-bit temperature field.
extractIntegerTemperature(rd) ==
  U16(BitOr(Shl(U16(rd[3]), 3), Shr(U16(BitAnd(rd[4], 224)), 5)))

\* The floating-point literals of the transfer and conversion formulas.
Lit_1_25       == RDec(125, 2)
Lit_200_0      == RInt(200)
Lit_50_0       == RInt(50)
Lit_6894_75729 == RDec(689475729, 5)
Lit_27_679904  == RDec(27679904, 6)
Lit_1_8        == RDec(18, 1)
Lit_32_0       == RInt(32)
Lit_273_15     == RDec(27315, 2)
TemperatureSlope == RDivInt(Lit_200_0, 2047)

\* Raw digital pressure to PSI.
transferPressure(raw_value, zero_ref, range) ==
  RMul(RMul(Lit_1_25,
            RDivInt(RSub(RInt(raw_value), zero_ref), FULL_SCALE_REF)),
       range)

\* transferTemperature dividing the span by 2^11 instead of 2^11 - 1.
transferTemperature_2048(raw_value) ==
  RSub(RMul(RInt(raw_value), RDivInt(Lit_200_0, 2048)), Lit_50_0)

\* Raw digital temperature to degrees Celsius.
transferTemperature(raw_value) ==
  RSub(RMul(RInt(raw_value), TemperatureSlope), Lit_50_0)

\* convertPressure with the two factors exchanged.
convertPressure_swapped(psi, unit) ==
  CASE unit = PASCAL -> RMul(psi, Lit_27_679904)
    [] unit = IN_H2O -> RMul(psi, Lit_6894_75729)
    [] OTHER         -> psi

\* PSI to the configured pressure output unit.
convertPressure(psi, unit) ==
  CASE unit = PASCAL -> RMul(psi, Lit_6894_75729)
    [] unit = IN_H2O -> RMul(psi, Lit_27_679904)
    [] OTHER         -> psi

\* Degrees Celsius to the configured temperature output unit.
convertTemperature(degree_c, unit) ==
  CASE unit = FAHRENHEIT -> RAdd(RMul(degree_c, Lit_1_8), Lit_32_0)
    [] unit = KELVIN     -> RAdd(degree_c, Lit_273_15)
    [] OTHER             -> degree_c

\* The constructor's switch on the sensor type.
zeroRefOf(t) ==
  CASE t \in {GAGE, ABSOLUTE} -> RInt(1638)
    [] t = DIFFERENTIAL       -> RInt(8192)

\* rangeOf without the doubling for differential sensors.
rangeOf_single(t, max) == max

rangeOf(t, max) ==
  CASE t \in {GAGE, ABSOLUTE} -> max
    [] t = DIFFERENTIAL       -> RMul(max, RInt(2))

\* readData's return value.  First a variant reporting every status but
\* CURRENT.
readData_return_notCurrent(s) == s # CURRENT

readData_return(s) == s = ERROR

\* TwoWire::read(): the next received byte, or -1 when none is left.
busRead(buf) == IF buf = <<>> THEN -1 ELSE Head(buf)

(***************************************************************************)
(* Bounds of the model.                                                    *)
(***************************************************************************)
\* How many of SampleFrames the transport may answer a request with.
NumFrames == 3

\* Frames the sensor may send: all fields at their maximum with status
\* CURRENT, all fields zero with status ERROR, the gage zero-pressure code
\* with status STALE_DATA, and the differential zero-pressure code with
\* status RESERVED and the unused low bits set.
SampleFrames ==
  << <<63, 255, 255, 224>>, <<192, 0, 0, 0>>, <<134, 102, 128, 0>>,
     <<96, 0, 100, 31>> >>

Frames == {SampleFrames[k] : k \in 1..NumFrames}

\* How many of PresetRatings the transfer functions are swept over.
NumRatings == 2

\* The ratings of the preset subclasses, in PSI.
PresetRatings == <<5, 60, 15, 30>>

\* Ratings a sensor is constructed with: the smallest and the largest preset.
Ratings == {PresetRatings[1], PresetRatings[2]}

\* Ratings of the sweep over all pressure codes.
SweepRatings == {PresetRatings[k] : k \in 1..NumRatings}

Byte == 0..255

\* Unit selectors the setters are handed.
PressureUnitInputs    == PressureUnits
TemperatureUnitInputs == TemperatureUnits

\* What the public members hold before the first readData: they have no
\* initializer, so any value.
Junk ==
  [status |-> ERROR, pressure |-> RInt(-7), temperature |-> RDec(5, 1)]

Indeterminate ==
  { [status |-> CURRENT, pressure |-> Zero, temperature |-> Zero], Junk }

(***************************************************************************)
(* State.                                                                  *)
(***************************************************************************)
VARIABLES
  type, pressure_max, pressure_range, pressure_zero_ref,  \* configuration
  pressure_unit, temperature_unit,                        \* unit selectors
  raw_data, raw_p, raw_t,                                 \* last frame, codes
  status, pressure, temperature,                          \* the reading
  pc, i,               \* position in readData and its loop index
  ret,                 \* what the last readData returned (once reads holds)
  rx,                  \* bytes the bus holds for read()
  busLog,              \* bus calls of the current or last readData
  delivered,           \* how many bytes the transport delivered to it
  reads,               \* whether a readData has completed
  unitsAtRead,         \* the selectors when the last readData was called
  unitSet              \* whether a setter has been called

config  == <<type, pressure_max, pressure_range, pressure_zero_ref>>
units   == <<pressure_unit, temperature_unit>>
reading == <<status, pressure, temperature>>
codes   == <<raw_p, raw_t>>
ghost   == <<delivered, reads, unitsAtRead, unitSet>>
vars    == <<config, units, raw_data, codes, reading, pc, i, ret, rx, busLog, ghost>>

\* The constructor with the default pressure unit its header comment names.
Construct_inH2O(t, max, junk) ==
  /\ pressure_unit = IN_H2O
  /\ temperature_unit = CELCIUS
  /\ type = t
  /\ pressure_max = max
  /\ pressure_zero_ref = zeroRefOf(t)
  /\ pressure_range = rangeOf(t, max)
  /\ raw_data = <<0, 0, 0, 0>>
  /\ raw_p = 0
  /\ raw_t = 0
  /\ status = junk.status
  /\ pressure = junk.pressure
  /\ temperature = junk.temperature

\* AllSensors_DLV::AllSensors_DLV(bus, type, pressure_max)
Construct(t, max, junk) ==
  /\ pressure_unit = PSI
  /\ temperature_unit = CELCIUS
  /\ type = t
  /\ pressure_max = max
  /\ pressure_zero_ref = zeroRefOf(t)
  /\ pressure_range = rangeOf(t, max)
  /\ raw_data = <<0, 0, 0, 0>>
  /\ raw_p = 0
  /\ raw_t = 0
  /\ status = junk.status
  /\ pressure = junk.pressure
  /\ temperature = junk.temperature

Idle ==
  /\ pc = "idle" /\ i = 0 /\ ret = FALSE /\ rx = <<>> /\ busLog = <<>>
  /\ delivered = 0 /\ reads = FALSE /\ unitSet = FALSE
  /\ unitsAtRead = <<PSI, CELCIUS>>

Init ==
  /\ \E t \in SensorTypes, r \in Ratings, junk \in Indeterminate :
       Construct(t, RInt(r), junk)
  /\ Idle

\* setPressureUnit applying the new unit to the stored reading at once.
setPressureUnit_reconvert(unit) ==
  /\ pc = "idle"
  /\ pressure_unit' = unit
  /\ pressure' = convertPressure(pressure, unit)
  /\ unitSet' = TRUE
  /\ UNCHANGED <<config, temperature_unit, raw_data, codes, status,
                 temperature, pc, i, ret, rx, busLog, delivered, reads,
                 unitsAtRead>>

\* void setPressureUnit(PressureUnit pressure_unit)
setPressureUnit(unit) ==
  /\ pc = "idle"
  /\ pressure_unit' = unit
  /\ unitSet' = TRUE
  /\ UNCHANGED <<config, temperature_unit, raw_data, codes, reading, pc, i,
                 ret, rx, busLog, delivered, reads, unitsAtRead>>

\* void setTemperatureUnit(TemperatureUnit temperature_unit)
setTemperatureUnit(unit) ==
  /\ pc = "idle"
  /\ temperature_unit' = unit
  /\ unitSet' = TRUE
  /\ UNCHANGED <<config, pressure_unit, raw_data, codes, reading, pc, i,
                 ret, rx, busLog, delivered, reads, unitsAtRead>>

\* readData: bus->requestFrom(I2C_ADDRESS, (uint8_t) READ_LENGTH).  The
\* transport answers with the first n bytes of a frame, n <= READ_LENGTH.
readData_requestFrom(frame, n) ==
  /\ pc = "idle"
  /\ rx' = SubSeq(frame, 1, n)
  /\ delivered' = n
  /\ busLog' = <<[op |-> "requestFrom", address |-> I2C_ADDRESS,
                  quantity |-> U8(READ_LENGTH)]>>
  /\ unitsAtRead' = <<pressure_unit, temperature_unit>>
  /\ i' = 0
  /\ pc' = "read"
  /\ UNCHANGED <<config, units, raw_data, codes, reading, ret, reads, unitSet>>

\* The loop filling raw_data from its end.
readData_read_reversed ==
  /\ pc = "read"
  /\ i < READ_LENGTH
  /\ LET v == busRead(rx)
     IN  /\ raw_data' = [raw_data EXCEPT ![READ_LENGTH - i] = U8(v)]
         /\ busLog' = Append(busLog, [op |-> "read", value |-> v])
  /\ rx' = IF rx = <<>> THEN rx ELSE Tail(rx)
  /\ i' = i + 1
  /\ UNCHANGED <<config, units, codes, reading, pc, ret, ghost>>

\* readData: one turn of the loop, raw_data[i] = bus->read().
readData_read ==
  /\ pc = "read"
  /\ i < READ_LENGTH
  /\ LET v == busRead(rx)
     IN  /\ raw_data' = [raw_data EXCEPT ![i + 1] = U8(v)]
         /\ busLog' = Append(busLog, [op |-> "read", value |-> v])
  /\ rx' = IF rx = <<>> THEN rx ELSE Tail(rx)
  /\ i' = i + 1
  /\ UNCHANGED <<config, units, codes, reading, pc, ret, ghost>>

\* readData: the loop is over, bus->endTransmission().
readData_endTransmission ==
  /\ pc = "read"
  /\ ~(i < READ_LENGTH)
  /\ busLog' = Append(busLog, [op |-> "endTransmission"])
  /\ pc' = "decode"
  /\ UNCHANGED <<config, units, raw_data, codes, reading, i, ret, rx, ghost>>

\* The decode step transferring the codes of the previous frame: the
\* conversions run before raw_p and raw_t are assigned.
readData_decode_stale ==
  /\ pc = "decode"
  /\ LET s == extractStatus(raw_data)
         p == extractIntegerPressure(raw_data)
         t == extractIntegerTemperature(raw_data)
     IN  /\ status' = s
         /\ raw_p' = p
         /\ raw_t' = t
         /\ pressure' = convertPressure(
                          transferPressure(raw_p, pressure_zero_ref, pressure_range),
                          pressure_unit)
         /\ temperature' = convertTemperature(transferTemperature(raw_t),
                                              temperature_unit)
         /\ ret' = readData_return(s)
  /\ reads' = TRUE
  /\ pc' = "idle"
  /\ UNCHANGED <<config, units, raw_data, i, rx, busLog, delivered,
                 unitsAtRead, unitSet>>

\* readData: decode, transfer, convert, store and return.
readData_decode ==
  /\ pc = "decode"
  /\ LET s == extractStatus(raw_data)
         p == extractIntegerPressure(raw_data)
         t == extractIntegerTemperature(raw_data)
     IN  /\ status' = s
         /\ raw_p' = p
         /\ raw_t' = t
         /\ pressure' = convertPressure(
                          transferPressure(p, pressure_zero_ref, pressure_range),
                          pressure_unit)
         /\ temperature' = convertTemperature(transferTemperature(t),
                                              temperature_unit)
         /\ ret' = readData_return(s)
  /\ reads' = TRUE
  /\ pc' = "idle"
  /\ UNCHANGED <<config, units, raw_data, i, rx, busLog, delivered,
                 unitsAtRead, unitSet>>

Next ==
  \/ \E u \in PressureUnitInputs : setPressureUnit(u)
  \/ \E u \in TemperatureUnitInputs : setTemperatureUnit(u)
  \/ \E f \in Frames, n \in 0..READ_LENGTH : readData_requestFrom(f, n)
  \/ readData_read
  \/ readData_endTransmission
  \/ readData_decode

Spec == Init /\ [][Next]_vars

(***************************************************************************)
(* Specifications of the decode step alone.  Each starts where a first     *)
(* readData has read a frame and ended its transaction, and takes the      *)
(* step that decodes, transfers, converts and stores it.                   *)
(***************************************************************************)
FullLog(rd) ==
  <<[op |-> "requestFrom", address |-> I2C_ADDRESS, quantity |-> U8(READ_LENGTH)]>>
  \o [k \in 1..READ_LENGTH |-> [op |-> "read", value |-> rd[k]]]
  \o <<[op |-> "endTransmission"]>>

AtDecode(t, r, pu, tu, rd) ==
  /\ type = t
  /\ pressure_max = RInt(r)
  /\ pressure_zero_ref = zeroRefOf(t)
  /\ pressure_range = rangeOf(t, RInt(r))
  /\ pressure_unit = pu
  /\ temperature_unit = tu
  /\ raw_data = rd
  /\ raw_p = 0
  /\ raw_t = 0
  /\ status = Junk.status
  /\ pressure = Junk.pressure
  /\ temperature = Junk.temperature
  /\ pc = "decode" /\ i = READ_LENGTH /\ ret = FALSE /\ rx = <<>>
  /\ busLog = FullLog(rd)
  /\ delivered = READ_LENGTH
  /\ reads = FALSE
  /\ unitSet = (<<pu, tu>> # <<PSI, CELCIUS>>)
  /\ unitsAtRead = <<pu, tu>>

\* Every value of bytes 0 and 1, every value of bytes 2 and 3, and every
\* value of byte 0 under every pair of units.
InitDecode ==
  \/ \E a \in Byte, b \in Byte : AtDecode(GAGE, 5, PSI, CELCIUS, <<a, b, 0, 0>>)
  \/ \E c \in Byte, d \in Byte : AtDecode(GAGE, 5, PSI, CELCIUS, <<192, 0, c, d>>)
  \/ \E a \in Byte, pu \in PressureUnits, tu \in TemperatureUnits :
       AtDecode(DIFFERENTIAL, 5, pu, tu, <<a, 85, 170, 31>>)

SpecDecode == InitDecode /\ [][readData_decode]_vars

\* The frame whose pressure field is code and whose temperature field is
\* code modulo 2048.
FrameOfCode(code) ==
  <<code \div 256, code % 256, (code % 2048) \div 8, ((code % 2048) % 8) * 32>>

\* Every pressure code and every temperature code, for every sensor type,
\* in the base units.
InitTransfer ==
  \E t \in SensorTypes, r \in SweepRatings, code \in 0..16383 :
    AtDecode(t, r, PSI, CELCIUS, FrameOfCode(code))

SpecTransfer == InitTransfer /\ [][readData_decode]_vars

\* Every selector value 0..255 of one unit, the other at its default, on
\* each sample frame.
InitConvert ==
  \E k \in 1..Len(SampleFrames), t \in {GAGE, DIFFERENTIAL}, u \in Byte :
    \/ AtDecode(t, 60, u, CELCIUS, SampleFrames[k])
    \/ AtDecode(t, 60, PSI, u, SampleFrames[k])

SpecConvert == InitConvert /\ [][readData_decode]_vars

(***************************************************************************)
(* Properties.                                                             *)
(***************************************************************************)
\* A readData has completed and the next has not begun.
Read == pc = "idle" /\ reads

\* What the claims say of the configuration, from its integer rating.
ZeroCode(t)  == IF t = DIFFERENTIAL THEN 8192 ELSE 1638
SpanOf(t, r) == IF t = DIFFERENTIAL THEN 2 * r ELSE r

\* 1.25 * ((code - zero) / 16384) * span as the single fraction
\* 5 * (code - zero) * span / 65536.
PsiOf(code, zero, span) == RDivInt(RInt(5 * (code - zero) * span), 65536)

\* code * (200 / 2047) - 50 as the single fraction
\* (200 * code - 50 * 2047) / 2047.
CelsiusOf(code) == RDivInt(RInt(200 * code - 50 * 2047), 2047)

\* C1: for every frame the decoder yields status = (byte0 >> 6) & 3,
\* pressure code = ((byte0 & 0x3F) << 8) | byte1 and temperature code =
\* (byte2 << 3) | ((byte3 & 0xE0) >> 5), written here with div and mod; the
\* three lie in 0..3, 0..16383 and 0..2047; and replacing the low 5 bits of
\* byte3 by other bits (none, all, and the two alternating patterns)
\* decodes to the same three fields.  Byte 3 itself takes every value.
C1_DecoderFields ==
  Read =>
    /\ status = (raw_data[1] \div 64) % 4
    /\ raw_p = (raw_data[1] % 64) * 256 + raw_data[2]
    /\ raw_t = raw_data[3] * 8 + raw_data[4] \div 32
    /\ status \in 0..3
    /\ raw_p \in 0..16383
    /\ raw_t \in 0..2047
    /\ \A x \in {0, 10, 21, 31} :
         LET rd == [raw_data EXCEPT ![4] = (raw_data[4] \div 32) * 32 + x]
         IN  /\ extractStatus(rd) = status
             /\ extractIntegerPressure(rd) = raw_p
             /\ extractIntegerTemperature(rd) = raw_t

\* A frame with status ERROR, a pressure field with bits in both bytes, a
\* temperature field and all five unused bits set has been decoded.
C1_Witness ==
  /\ Read
  /\ raw_data = <<255, 85, 170, 31>>
  /\ status = ERROR /\ raw_p = 16213 /\ raw_t = 1360

\* C5: readData returns true exactly when the top two bits of byte 0 of the
\* frame it read are 11, that is when the decoded status is ERROR, and false
\* for CURRENT, RESERVED and STALE_DATA, whatever the other bits and units.
C5_ReturnsTrueIffError ==
  Read =>
    /\ ret = (raw_data[1] >= 192)
    /\ ret = (status = ERROR)
    /\ status \in {CURRENT, RESERVED, STALE_DATA} => ~ret

\* readData has returned true on a frame with status ERROR while the units
\* are Pascal and Kelvin.
C5_Witness ==
  /\ Read /\ ret /\ status = ERROR
  /\ pressure_unit = PASCAL /\ temperature_unit = KELVIN

\* C2: in PSI the stored pressure of every code is
\* 1.25 * ((code - zeroRef) / 16384) * span with (zeroRef, span) =
\* (1638, R) for GAGE and ABSOLUTE and (8192, 2R) for DIFFERENTIAL; a
\* DIFFERENTIAL sensor at code 8192 reads exactly 0.
C2_PressureTransfer ==
  Read =>
    \E r \in SweepRatings :
      /\ pressure_max = RInt(r)
      /\ pressure = PsiOf(raw_p, ZeroCode(type), SpanOf(type, r))
      /\ (type = DIFFERENTIAL /\ raw_p = 8192) => pressure = Zero

\* A differential sensor has read the code 8192 and stored 0 PSI.
C2_Witness ==
  Read /\ type = DIFFERENTIAL /\ raw_p = 8192 /\ pressure = Zero

\* C3: in degrees Celsius the stored temperature of every code is
\* code * (200 / 2047) - 50; code 0 gives -50, code 2047 gives 150, and
\* every code gives a value from -50 to 150.
C3_TemperatureTransfer ==
  Read =>
    /\ temperature = CelsiusOf(raw_t)
    /\ raw_t = 0 => temperature = RInt(-50)
    /\ raw_t = 2047 => temperature = RInt(150)
    /\ RLe(RInt(-50), temperature)
    /\ RLe(temperature, RInt(150))

\* The code 2047 has been read and 150 degrees stored.
C3_Witness == Read /\ raw_t = 2047 /\ temperature = RInt(150)

\* C4: the stored pressure is the PSI value times 27.679904 under IN_H2O,
\* times 6894.75729 under PASCAL and the PSI value itself under every other
\* selector; the stored temperature is c * 1.8 + 32 under FAHRENHEIT,
\* c + 273.15 under KELVIN and c itself under every other selector; and no
\* selector value makes readData report an error: it returns true only for
\* a frame whose status bits are 11.
C4_UnitConverters ==
  Read =>
       LET psi == transferPressure(raw_p, pressure_zero_ref, pressure_range)
           c   == transferTemperature(raw_t)
       IN  /\ ret = (raw_data[1] >= 192)
           /\ pressure =
                CASE pressure_unit = IN_H2O ->
                       RDivInt(RMul(psi, RInt(27679904)), 1000000)
                  [] pressure_unit = PASCAL ->
                       RDivInt(RMul(psi, RInt(689475729)), 100000)
                  [] OTHER -> psi
           /\ temperature =
                CASE temperature_unit = FAHRENHEIT ->
                       RAdd(RDivInt(RMul(c, RInt(9)), 5), RInt(32))
                  [] temperature_unit = KELVIN ->
                       RAdd(c, RDivInt(RInt(27315), 100))
                  [] OTHER -> c

\* A reading has been stored under a pressure selector that is no
\* enumerator, and it is the non-zero PSI value.
C4_Witness ==
  /\ Read
  /\ pressure_unit = 255
  /\ pressure # Zero
  /\ pressure = transferPressure(raw_p, pressure_zero_ref, pressure_range)

\* The frame of the last readData: the values its four reads returned, in
\* the order of arrival, each as stored in a uint8_t.
ArrivedFrame == [k \in 1..READ_LENGTH |-> U8(busLog[k + 1].value)]

\* C6: once a readData has completed, the stored status, pressure and
\* temperature are the decoder, the transfer functions and the converters
\* applied to the frame of that readData, under the configuration of the
\* constructor and the selectors in force when it was called, whatever was
\* stored before.
C6_ReadingIsOfLastFrame ==
  Read =>
    LET f == ArrivedFrame
    IN  /\ status = extractStatus(f)
        /\ pressure =
             convertPressure(
               transferPressure(extractIntegerPressure(f), zeroRefOf(type),
                                rangeOf(type, pressure_max)),
               unitsAtRead[1])
        /\ temperature =
             convertTemperature(
               transferTemperature(extractIntegerTemperature(f)),
               unitsAtRead[2])

\* A readData called under Pascal and Fahrenheit has stored a complete frame
\* with status CURRENT.
C6_Witness ==
  /\ Read
  /\ unitsAtRead = <<PASCAL, FAHRENHEIT>>
  /\ <<pressure_unit, temperature_unit>> = unitsAtRead
  /\ delivered = READ_LENGTH
  /\ status = CURRENT
  /\ pressure # Zero

\* C7: a step that changes one unit selector changes neither the other
\* selector nor the configuration, the frame, the codes or the stored
\* reading; the configuration never changes; and the reading a readData
\* stores is converted under the selectors as they then are.
C7_SettersChangeOnlyTheirSelector ==
  [][ /\ pressure_unit' # pressure_unit =>
           UNCHANGED <<temperature_unit, config, raw_data, codes, reading>>
      /\ temperature_unit' # temperature_unit =>
           UNCHANGED <<pressure_unit, config, raw_data, codes, reading>>
      /\ UNCHANGED config
      /\ (pc = "decode" /\ pc' = "idle") =>
           /\ pressure' =
                convertPressure(
                  transferPressure(extractIntegerPressure(raw_data),
                                   pressure_zero_ref, pressure_range),
                  pressure_unit)
           /\ temperature' =
                convertTemperature(
                  transferTemperature(extractIntegerTemperature(raw_data)),
                  temperature_unit)
    ]_vars

\* After a readData under the default units, setPressureUnit(PASCAL) has
\* been called and the stored pressure is still the non-zero PSI value.
C7_Witness ==
  /\ Read
  /\ unitsAtRead = <<PSI, CELCIUS>>
  /\ pressure_unit = PASCAL
  /\ temperature_unit = CELCIUS
  /\ pressure # Zero
  /\ pressure = transferPressure(raw_p, pressure_zero_ref, pressure_range)

\* The bus calls of a readData so far: a request for READ_LENGTH bytes at
\* I2C_ADDRESS, then at most READ_LENGTH reads, then the end of the
\* transaction.
LogInOrder ==
  /\ Len(busLog) <= READ_LENGTH + 2
  /\ \A k \in 1..Len(busLog) :
       CASE k = 1 -> busLog[k] = [op |-> "requestFrom", address |-> 40,
                                  quantity |-> 4]
         [] k = READ_LENGTH + 2 -> busLog[k] = [op |-> "endTransmission"]
         [] OTHER -> busLog[k].op = "read"

\* C8: the bus calls of a readData come in the order request (4 bytes at
\* 0x28), four reads, end of transaction; a completed readData made exactly
\* these six calls and holds the four values in raw_data in their order of
\* arrival; and the codes, the stored reading and the return value change
\* only in a step taken after the end of the transaction, which makes no
\* bus call.
C8_BusTransaction ==
  /\ [](LogInOrder)
  /\ [](Read => /\ Len(busLog) = 6
                /\ \A k \in 1..4 : raw_data[k] = U8(busLog[k + 1].value))
  /\ [][ (<<codes, reading, ret, reads>>' # <<codes, reading, ret, reads>>) =>
           /\ Len(busLog) = 6
           /\ busLog[6].op = "endTransmission"
           /\ busLog' = busLog
       ]_vars

\* A readData has completed on the first sample frame, delivered whole.
C8_Witness ==
  /\ Read
  /\ delivered = READ_LENGTH
  /\ raw_data = SampleFrames[1]
  /\ Len(busLog) = 6

\* What the caller can tell from readData's boolean.
Outcome == IF ret THEN "SensorFault" ELSE "Ok"

\* C9: a readData whose transport delivered fewer than 4 bytes reports a
\* transport error, which is neither success nor a sensor fault, and leaves
\* the stored status, pressure and temperature as they were.
C9_ShortReadIsHardError ==
  [][ (pc = "decode" /\ pc' = "idle" /\ delivered < READ_LENGTH) =>
        /\ Outcome' = "TransportError"
        /\ UNCHANGED reading
    ]_vars

=============================================================================
